---- MODULE Spec2Model ----
(***************************************************************************)
(* Incremental texture encoder, scripts/encode_textures.py.                *)
(*                                                                         *)
(* The model covers the staleness evaluator (should_encode), the encoder   *)
(* command builder (build_command) and the loop of main() that walks the   *)
(* asset directories, filters the *.cmeta records, decides skip/encode and *)
(* runs the external encoder.                                              *)
(*                                                                         *)
(* Environment, as seen by the script:                                     *)
(*   - every file has a modification time in 1..MaxTime, or is absent;     *)
(*     a source file's mtime is whatever the file system reports (it may   *)
(*     lie in the future of the clock: utime, archives, clock skew);       *)
(*   - the encoder is an opaque process: exit status 0 means it wrote      *)
(*     <output_file> at the current clock value; a non-zero status leaves  *)
(*     the output untouched or leaves a partial file behind; it cannot     *)
(*     succeed on a source file that does not exist;                       *)
(*   - rglob() returns the files of a directory in an order that is fixed  *)
(*     as long as the directory is unchanged.                              *)
(*   - between runs the clock advances, sources are written or deleted,   *)
(*     and (SpecEdit) a metadata file is edited: its asset renamed, its    *)
(*     import settings replaced or its GUID changed.                       *)
(***************************************************************************)
EXTENDS Integers, Sequences, FiniteSets, TLC

\* ------------------------------------------------------------------ bounds
NumMeta == 2      \* number of *.cmeta files in the asset tree
MaxTime == 2      \* largest modification time / clock value
MaxCalls == 2     \* repeated evaluations of a pure function on one input

MetaFiles == 1..NumMeta
Times == 1..MaxTime

\* ------------------------------------------------------- file system values
NoFile == 0       \* the mtime slot of a file that does not exist
StatErr == -1     \* stat() raised OSError

\* Path.stat().st_mtime of a file slot
Stat(f) == IF f = NoFile THEN StatErr ELSE f

\* Path.exists()
Exists(f) == f # NoFile

\* ------------------------------------------------------------ program data
LDR_EXTS == {".png", ".jpg", ".jpeg", ".tga", ".bmp", ".gif", ".tif", ".tiff"}

\* str.lower() on the suffixes that occur in the model
Lower(s) ==
    CASE s = ".PNG" -> ".png"
      [] s = ".JPG" -> ".jpg"
      [] OTHER -> s

\* dict.get(key, default)
Get(d, k, default) == IF k \in DOMAIN d THEN d[k] ELSE default

EmptyDict == [k \in {} |-> TRUE]

\* Python truthiness of meta.get("guid"): <<>> is None (key absent),
\* <<s>> is the string s.
Truthy(g) == g # <<>> /\ g[1] # ""

\* f"{guid}.ktx2" under cache_dir
OutputPath(g) == "ImportCache/" \o g[1] \o ".ktx2"

\* ------------------------------------------------------------ *.cmeta files
\* The content of one metadata file:
\*   json    "invalid" (json.loads raises JSONDecodeError), "array" (valid
\*           JSON that is not an object) or "object";
\*   type    meta.get("type");
\*   guid    meta.get("guid"): <<>> when the key is absent, else <<string>>;
\*   suffix  the suffix of the asset path (the meta path less ".cmeta");
\*   import  "absent", "empty" ({}), "scalar" (a string) or "texture"
\*           (an object holding the key "texture");
\*   texture the value of import.texture, a dict of the settings present.
Rec(j, t, g, s, i, x) ==
    [json |-> j, type |-> t, guid |-> g, suffix |-> s, import |-> i, texture |-> x]

CustomTexture ==
    [srgb |-> FALSE, normalMap |-> TRUE, flipY |-> TRUE, generateMipmaps |-> FALSE]

InvalidJson == Rec("invalid", "", <<>>, ".png", "absent", EmptyDict)
ArrayJson == Rec("array", "", <<>>, ".png", "absent", EmptyDict)
MaterialRec == Rec("object", "material", <<"a">>, ".png", "absent", EmptyDict)
NoGuidRec == Rec("object", "texture", <<>>, ".png", "empty", EmptyDict)
HdrRec == Rec("object", "texture", <<"a">>, ".hdr", "empty", EmptyDict)
ScalarImportRec == Rec("object", "texture", <<"a">>, ".png", "scalar", EmptyDict)
TextureA == Rec("object", "texture", <<"a">>, ".png", "empty", EmptyDict)
TextureB == Rec("object", "texture", <<"b">>, ".PNG", "texture", CustomTexture)

MetaChoices ==
    {InvalidJson, ArrayJson, MaterialRec, NoGuidRec, HdrRec, ScalarImportRec,
     TextureA, TextureB}

Classify_nolower(rec) ==
    IF rec.json = "invalid" THEN "unparsable"
    ELSE IF rec.json # "object" THEN "crash"
    ELSE IF rec.type # "texture" THEN "excluded"
    ELSE IF ~Truthy(rec.guid) THEN "excluded"
    ELSE IF rec.suffix \notin LDR_EXTS THEN "excluded"
    ELSE IF rec.import = "scalar" THEN "crash"
    ELSE "candidate"

Classify_notype(rec) ==
    IF rec.json = "invalid" THEN "unparsable"
    ELSE IF rec.json # "object" THEN "crash"
    ELSE IF ~Truthy(rec.guid) THEN "excluded"
    ELSE IF Lower(rec.suffix) \notin LDR_EXTS THEN "excluded"
    ELSE IF rec.import = "scalar" THEN "crash"
    ELSE "candidate"

\* The filter of main(), lines 111-123, in the order the code applies it.
\*   "unparsable"  json.loads raised JSONDecodeError: continue
\*   "crash"       an exception main() does not catch (AttributeError on
\*                 .get of a value that is not a dict)
\*   "excluded"    one of the three continue statements
\*   "candidate"   the record reaches should_encode
Classify(rec) ==
    IF rec.json = "invalid" THEN "unparsable"
    ELSE IF rec.json # "object" THEN "crash"
    ELSE IF rec.type # "texture" THEN "excluded"
    ELSE IF ~Truthy(rec.guid) THEN "excluded"
    ELSE IF Lower(rec.suffix) \notin LDR_EXTS THEN "excluded"
    ELSE IF rec.import = "scalar" THEN "crash"
    ELSE "candidate"

\* (meta.get("import") or {}).get("texture") or {}
ImportSettings(rec) == IF rec.import = "texture" THEN rec.texture ELSE EmptyDict

\* meta_path.with_suffix(""), as a string
AssetPath(m, rec) == "Assets/tex" \o ToString(m) \o rec.suffix

\* ------------------------------------------------------- staleness evaluator
should_encode_missing_only(outExists, outStat, srcStat) == ~outExists

should_encode_closed(outExists, outStat, srcStat) ==
    IF ~outExists THEN TRUE
    ELSE IF outStat = StatErr \/ srcStat = StatErr THEN FALSE
    ELSE outStat < srcStat

should_encode_flipped(outExists, outStat, srcStat) ==
    IF ~outExists THEN TRUE
    ELSE IF outStat = StatErr \/ srcStat = StatErr THEN TRUE
    ELSE outStat <= srcStat

\* should_encode(asset_path, output_path), on what the file system answers:
\* outExists is output_path.exists(), outStat and srcStat are the two
\* st_mtime values or StatErr when stat() raises OSError.
should_encode(outExists, outStat, srcStat) ==
    IF ~outExists THEN TRUE
    ELSE IF outStat = StatErr \/ srcStat = StatErr THEN TRUE
    ELSE outStat < srcStat

\* ---------------------------------------------------------- command builder
build_command_swapped(basisu, asset_path, output_path, srgb, normal_map, flip_y, generate_mips) ==
    <<basisu, "-ktx2", "-ktx2_no_zstandard",
      IF normal_map THEN "-uastc" ELSE "-etc1s",
      IF srgb THEN "-srgb" ELSE "-linear">>
    \o (IF flip_y THEN <<"-y_flip">> ELSE <<>>)
    \o (IF generate_mips THEN <<"-mipmap">> ELSE <<>>)
    \o <<"-quality", IF normal_map THEN "80" ELSE "50",
         "-effort", "4",
         "-file", asset_path,
         "-output_file", output_path,
         "-no_status_output">>

build_command(basisu, asset_path, output_path, srgb, normal_map, flip_y, generate_mips) ==
    <<basisu, "-ktx2", "-ktx2_no_zstandard",
      IF normal_map THEN "-uastc" ELSE "-etc1s",
      IF srgb THEN "-srgb" ELSE "-linear">>
    \o (IF flip_y THEN <<"-y_flip">> ELSE <<>>)
    \o (IF generate_mips THEN <<"-mipmap">> ELSE <<>>)
    \o <<"-quality", IF normal_map THEN "50" ELSE "80",
         "-effort", "4",
         "-file", asset_path,
         "-output_file", output_path,
         "-no_status_output">>

Basisu == "ThirdParty/basisu/basisu"

CommandFor_nomips(m, rec) ==
    LET s == ImportSettings(rec) IN
    build_command(Basisu, AssetPath(m, rec), OutputPath(rec.guid),
                  Get(s, "srgb", TRUE), Get(s, "normalMap", FALSE),
                  Get(s, "flipY", FALSE), Get(s, "generateMipmaps", FALSE))

\* The command main() builds for metadata file m, lines 123-134.
CommandFor(m, rec) ==
    LET s == ImportSettings(rec) IN
    build_command(Basisu, AssetPath(m, rec), OutputPath(rec.guid),
                  Get(s, "srgb", TRUE), Get(s, "normalMap", FALSE),
                  Get(s, "flipY", FALSE), Get(s, "generateMipmaps", TRUE))

\* ------------------------------------------------------------------- state
NumDirs == 2      \* length of assets_dirs

Dirs == 1..NumDirs

\* The directory that holds metadata file m: two files to a directory.
DirOf(m) == ((m - 1) \div 2) + 1

\* assets_dir.rglob("*.cmeta"): the files of directory d in the order the
\* file system lists them.
RGlob(d) ==
    LET lo == 2 * d - 1
        hi == IF 2 * d <= NumMeta THEN 2 * d ELSE NumMeta
    IN  IF hi < lo THEN <<>> ELSE [i \in 1..(hi - lo + 1) |-> lo + i - 1]

\* The cache files <guid>.ktx2 the records of the model can name.
OutPaths == {OutputPath(r.guid) : r \in {c \in MetaChoices : Truthy(c.guid)}}

Outcomes == {"none", "unparsable", "excluded", "crashed", "skipped", "encoded", "failed"}

VARIABLES
    meta,        \* content of each *.cmeta file
    srcM,        \* mtime slot of the asset file beside each *.cmeta file
    dirExists,   \* assets_dir.exists() for each search directory
    cache,       \* mtime slot of each ImportCache/<guid>.ktx2
    now,         \* the clock the file system stamps new files with
    pc,          \* "idle", "dirs" (outer loop), "files" (inner loop), "done", "crashed"
    dirIdx,      \* position of the outer loop in assets_dirs
    pending,     \* what the rglob generator of the inner loop has yet to yield
    encoded,     \* main()'s counter
    skipped,     \* main()'s counter
    outcome,     \* what this run did with each metadata file
    spawned,     \* the encoder invocations of this run, in order: <<m, cmd>>
    failures,    \* number of "Failed:" reports written to stderr in this run
    hist,        \* history: the run before this one and the edits since (see RunSummary)
    call,        \* a direct call of should_encode or build_command: its arguments
    ret,         \* <<>> before the call has returned, <<value>> after
    ncalls       \* how often the call has been evaluated

vars == <<meta, srcM, dirExists, cache, now, pc, dirIdx, pending, encoded,
          skipped, outcome, spawned, failures, hist, call, ret, ncalls>>

fnVars == <<call, ret, ncalls>>

fsVars == <<meta, srcM, dirExists, cache, now>>
runVars == <<pc, dirIdx, pending, encoded, skipped, outcome, spawned, failures>>

IsCandidate(m) == dirExists[DirOf(m)] /\ Classify(meta[m]) = "candidate"

NoOutcome == [m \in MetaFiles |-> "none"]

NoCall == [fn |-> "none"]

\* History of the run that ended last.
\*   clean   every encoder invocation of that run exited 0, and since then
\*           the sources were left alone but for the one edit in raised
\*   sane    no candidate's source mtime was later than the clock of that run
\*   enc     the files that run encoded successfully
\*   raised  0, or the one asset of enc whose source mtime was raised since
\*   beyond  the raised mtime is later than the mtime of the asset's cache entry
\*   failed  the files whose invocation in that run exited non-zero and whose
\*           cache entry that run left absent or as it was (no invocation of
\*           that run wrote it: it is absent or older than the run's clock)
\*   moved   0, or the one asset renamed since, with its metadata file
\*   retuned 0, or the one file whose import settings were changed since
\*   rekeyed 0, or the one file whose GUID was changed since
\* A run that died of an exception, and any other edit of the sources, leave
\* no history; a run with a failed invocation leaves none either (Finish) or
\* leaves only failed (FinishRemember).
NoHist ==
    [clean |-> FALSE, sane |-> FALSE, enc |-> {}, raised |-> 0, beyond |-> FALSE,
     failed |-> {}, moved |-> 0, retuned |-> 0, rekeyed |-> 0]

\* A project tree before the first run: any records, any source mtimes, an
\* empty ImportCache.  A file of a directory that does not exist, and the
\* asset of a record the filter drops, have no bearing on a run: they are
\* pinned to one value.
Init ==
    /\ dirExists \in [Dirs -> BOOLEAN]
    /\ meta \in [MetaFiles -> MetaChoices]
    /\ \A m \in MetaFiles : ~dirExists[DirOf(m)] => meta[m] = InvalidJson
    /\ srcM \in [MetaFiles -> {NoFile} \cup Times]
    /\ \A m \in MetaFiles : ~IsCandidate(m) => srcM[m] = 1
    /\ cache = [p \in OutPaths |-> NoFile]
    /\ now = 1
    /\ pc = "idle"
    /\ dirIdx = 1
    /\ pending = <<>>
    /\ encoded = 0
    /\ skipped = 0
    /\ outcome = NoOutcome
    /\ spawned = <<>>
    /\ failures = 0
    /\ hist = NoHist
    /\ call = NoCall
    /\ ret = <<>>
    /\ ncalls = 0

\* ------------------------------------------------------------- environment
Resting == pc \in {"idle", "done", "crashed"}

ClearRun ==
    /\ pc' = "idle"
    /\ dirIdx' = 1
    /\ pending' = <<>>
    /\ encoded' = 0
    /\ skipped' = 0
    /\ outcome' = NoOutcome
    /\ spawned' = <<>>
    /\ failures' = 0

\* Time passes between two runs.
Tick ==
    /\ Resting
    /\ now < MaxTime
    /\ now' = now + 1
    /\ ClearRun
    /\ UNCHANGED <<meta, srcM, dirExists, cache>>
    /\ UNCHANGED <<hist, call, ret, ncalls>>

\* A source asset is written, touched or restored with mtime t.
WriteSource(m, t) ==
    /\ Resting
    /\ IsCandidate(m)
    /\ srcM[m] # t
    /\ srcM' = [srcM EXCEPT ![m] = t]
    /\ ClearRun
    /\ UNCHANGED <<meta, dirExists, cache, now>>
    /\ hist' = IF /\ hist.clean
                  /\ hist.raised = 0
                  /\ m \in hist.enc
                  /\ srcM[m] # NoFile
                  /\ t > srcM[m]
               THEN [hist EXCEPT !.raised = m,
                                 !.beyond = t > cache[OutputPath(meta[m].guid)]]
               ELSE NoHist
    /\ UNCHANGED fnVars

\* A source asset is deleted; its *.cmeta file stays behind.
DeleteSource(m) ==
    /\ Resting
    /\ IsCandidate(m)
    /\ srcM[m] # NoFile
    /\ srcM' = [srcM EXCEPT ![m] = NoFile]
    /\ ClearRun
    /\ UNCHANGED <<meta, dirExists, cache, now>>
    /\ hist' = NoHist
    /\ UNCHANGED fnVars

\* ------------------------------------------------------------------ main()
\* Pre-flight passed (project file and encoder binary found, cache_dir made):
\* lines 88-105.
StartRun ==
    /\ Resting
    /\ pc' = "dirs"
    /\ dirIdx' = 1
    /\ pending' = <<>>
    /\ encoded' = 0
    /\ skipped' = 0
    /\ outcome' = NoOutcome
    /\ spawned' = <<>>
    /\ failures' = 0
    /\ UNCHANGED fsVars
    /\ UNCHANGED <<hist, call, ret, ncalls>>

\* for assets_dir in assets_dirs: if not assets_dir.exists(): continue
SkipDir ==
    /\ pc = "dirs"
    /\ dirIdx <= NumDirs
    /\ ~dirExists[dirIdx]
    /\ dirIdx' = dirIdx + 1
    /\ UNCHANGED <<pc, pending, encoded, skipped, outcome, spawned, failures>>
    /\ UNCHANGED fsVars
    /\ UNCHANGED <<hist, call, ret, ncalls>>

\* for meta_path in assets_dir.rglob("*.cmeta"): the generator is created
EnterDir ==
    /\ pc = "dirs"
    /\ dirIdx <= NumDirs
    /\ dirExists[dirIdx]
    /\ pending' = RGlob(dirIdx)
    /\ pc' = "files"
    /\ UNCHANGED <<dirIdx, encoded, skipped, outcome, spawned, failures>>
    /\ UNCHANGED fsVars
    /\ UNCHANGED <<hist, call, ret, ncalls>>

\* the generator is exhausted: back to the outer loop
LeaveDir ==
    /\ pc = "files"
    /\ pending = <<>>
    /\ dirIdx' = dirIdx + 1
    /\ pc' = "dirs"
    /\ UNCHANGED <<pending, encoded, skipped, outcome, spawned, failures>>
    /\ UNCHANGED fsVars
    /\ UNCHANGED <<hist, call, ret, ncalls>>

\* What the history keeps of the run that is ending.
RunSummary ==
    IF failures # 0 THEN NoHist ELSE
    [clean |-> TRUE,
     sane |-> \A m \in MetaFiles : IsCandidate(m) => Stat(srcM[m]) <= now,
     enc |-> {m \in MetaFiles : outcome[m] = "encoded"},
     raised |-> 0,
     beyond |-> FALSE,
     failed |-> {},
     moved |-> 0,
     retuned |-> 0,
     rekeyed |-> 0]

\* print(f"Encoded {encoded} texture(s), skipped {skipped}."); return 0
Finish ==
    /\ pc = "dirs"
    /\ dirIdx > NumDirs
    /\ pc' = "done"
    /\ UNCHANGED <<dirIdx, pending, encoded, skipped, outcome, spawned, failures>>
    /\ UNCHANGED fsVars
    /\ hist' = RunSummary
    /\ UNCHANGED fnVars

\* The same return, with the history keeping which invocations failed.
FinishRemember ==
    /\ pc = "dirs"
    /\ dirIdx > NumDirs
    /\ pc' = "done"
    /\ UNCHANGED <<dirIdx, pending, encoded, skipped, outcome, spawned, failures>>
    /\ UNCHANGED fsVars
    /\ hist' = [RunSummary EXCEPT !.failed =
                   {m \in MetaFiles : /\ outcome[m] = "failed"
                                      /\ cache[OutputPath(meta[m].guid)] < now}]
    /\ UNCHANGED fnVars

AtFile(m) == pc = "files" /\ pending # <<>> /\ m = Head(pending)

SkipRecord_counts(m) ==
    /\ AtFile(m)
    /\ Classify(meta[m]) \in {"unparsable", "excluded"}
    /\ skipped' = skipped + 1
    /\ pending' = Tail(pending)
    /\ outcome' = [outcome EXCEPT ![m] = Classify(meta[m])]
    /\ UNCHANGED <<pc, dirIdx, encoded, spawned, failures>>
    /\ UNCHANGED fsVars
    /\ UNCHANGED <<hist, call, ret, ncalls>>

\* One of the continue statements of lines 111-122.
SkipRecord(m) ==
    /\ AtFile(m)
    /\ Classify(meta[m]) \in {"unparsable", "excluded"}
    /\ pending' = Tail(pending)
    /\ outcome' = [outcome EXCEPT ![m] = Classify(meta[m])]
    /\ UNCHANGED <<pc, dirIdx, encoded, skipped, spawned, failures>>
    /\ UNCHANGED fsVars
    /\ UNCHANGED <<hist, call, ret, ncalls>>

\* meta.get(...) on a value that is not a dict: AttributeError leaves main().
Crash(m) ==
    /\ AtFile(m)
    /\ Classify(meta[m]) = "crash"
    /\ pc' = "crashed"
    /\ outcome' = [outcome EXCEPT ![m] = "crashed"]
    /\ UNCHANGED <<dirIdx, pending, encoded, skipped, spawned, failures>>
    /\ UNCHANGED fsVars
    /\ hist' = NoHist
    /\ UNCHANGED fnVars

StaleIn_settings(m, c) ==
    LET out == c[OutputPath(meta[m].guid)] IN
    \/ should_encode(Exists(out), Stat(out), Stat(srcM[m]))
    \/ meta[m].import = "texture" /\ Stat(out) <= Stat(srcM[m])

\* should_encode(asset_path, output_path) as main() calls it for file m,
\* with the cache in state c
StaleIn(m, c) ==
    LET out == c[OutputPath(meta[m].guid)] IN
    should_encode(Exists(out), Stat(out), Stat(srcM[m]))

Stale(m) == StaleIn(m, cache)

\* if not should_encode(...): skipped += 1; continue
SkipUpToDate(m) ==
    /\ AtFile(m)
    /\ Classify(meta[m]) = "candidate"
    /\ ~Stale(m)
    /\ skipped' = skipped + 1
    /\ pending' = Tail(pending)
    /\ outcome' = [outcome EXCEPT ![m] = "skipped"]
    /\ UNCHANGED <<pc, dirIdx, encoded, spawned, failures>>
    /\ UNCHANGED fsVars
    /\ UNCHANGED <<hist, call, ret, ncalls>>

EncoderWrites_cleanup(c, path, written, clock) ==
    [c EXCEPT ![path] = IF written THEN clock ELSE NoFile]

EncoderWrites_all(c, path, written, clock) ==
    IF written THEN [p \in DOMAIN c |-> clock] ELSE c

\* What the encoder process leaves in the cache: on exit status 0, and on a
\* failure that left a partial file, <output_file> stamped with the clock.
EncoderWrites(c, path, written, clock) ==
    IF written THEN [c EXCEPT ![path] = clock] ELSE c

\* subprocess.run(cmd) returned 0: encoded += 1
EncodeOk(m) ==
    /\ AtFile(m)
    /\ Classify(meta[m]) = "candidate"
    /\ Stale(m)
    /\ Exists(srcM[m])
    /\ spawned' = Append(spawned, <<m, CommandFor(m, meta[m])>>)
    /\ cache' = EncoderWrites(cache, OutputPath(meta[m].guid), TRUE, now)
    /\ encoded' = encoded + 1
    /\ pending' = Tail(pending)
    /\ outcome' = [outcome EXCEPT ![m] = "encoded"]
    /\ UNCHANGED <<pc, dirIdx, skipped, failures>>
    /\ UNCHANGED <<meta, srcM, dirExists, now>>
    /\ UNCHANGED <<hist, call, ret, ncalls>>

EncodeFail_retry(m, partial) ==
    /\ AtFile(m)
    /\ Classify(meta[m]) = "candidate"
    /\ Stale(m)
    /\ spawned' = Append(spawned, <<m, CommandFor(m, meta[m])>>)
    /\ cache' = EncoderWrites(cache, OutputPath(meta[m].guid), partial, now)
    /\ failures' = failures + 1
    /\ outcome' = [outcome EXCEPT ![m] = "failed"]
    /\ UNCHANGED <<pc, pending, dirIdx, encoded, skipped>>
    /\ UNCHANGED <<meta, srcM, dirExists, now>>
    /\ UNCHANGED <<hist, call, ret, ncalls>>

EncodeFail_abort(m, partial) ==
    /\ AtFile(m)
    /\ Classify(meta[m]) = "candidate"
    /\ Stale(m)
    /\ spawned' = Append(spawned, <<m, CommandFor(m, meta[m])>>)
    /\ cache' = EncoderWrites(cache, OutputPath(meta[m].guid), partial, now)
    /\ failures' = failures + 1
    /\ pc' = "crashed"
    /\ outcome' = [outcome EXCEPT ![m] = "failed"]
    /\ UNCHANGED <<pending, dirIdx, encoded, skipped>>
    /\ UNCHANGED <<meta, srcM, dirExists, now>>
    /\ UNCHANGED <<hist, call, ret, ncalls>>

\* subprocess.run(cmd) returned non-zero: print "Failed: ..."; continue
EncodeFail(m, partial) ==
    /\ AtFile(m)
    /\ Classify(meta[m]) = "candidate"
    /\ Stale(m)
    /\ spawned' = Append(spawned, <<m, CommandFor(m, meta[m])>>)
    /\ cache' = EncoderWrites(cache, OutputPath(meta[m].guid), partial, now)
    /\ failures' = failures + 1
    /\ pending' = Tail(pending)
    /\ outcome' = [outcome EXCEPT ![m] = "failed"]
    /\ UNCHANGED <<pc, dirIdx, encoded, skipped>>
    /\ UNCHANGED <<meta, srcM, dirExists, now>>
    /\ UNCHANGED <<hist, call, ret, ncalls>>

Next ==
    \/ Tick
    \/ \E m \in MetaFiles, t \in Times : WriteSource(m, t)
    \/ \E m \in MetaFiles : DeleteSource(m)
    \/ StartRun
    \/ SkipDir
    \/ EnterDir
    \/ LeaveDir
    \/ Finish
    \/ \E m \in MetaFiles : SkipRecord(m)
    \/ \E m \in MetaFiles : Crash(m)
    \/ \E m \in MetaFiles : SkipUpToDate(m)
    \/ \E m \in MetaFiles : EncodeOk(m)
    \/ \E m \in MetaFiles, partial \in BOOLEAN : EncodeFail(m, partial)

Spec == Init /\ [][Next]_vars

\* ---------------------------------------------------------- metadata edits
\* Between two runs the project's metadata files are edited: an asset is
\* renamed together with its metadata file, the import settings of a record
\* are replaced, a record is given another GUID.  One file is edited in a
\* behaviour, once, right after a run without failures, and one run follows
\* the edit; an edited record is one that Init does not offer.
EditedFiles == {m \in MetaFiles : meta[m] \notin MetaChoices}

\* The history is as a run without failures left it.
Untouched ==
    hist.clean /\ hist.raised = 0 /\ hist.moved = 0 /\ hist.retuned = 0 /\ hist.rekeyed = 0

EditMeta(m, rec) ==
    /\ IsCandidate(m)
    /\ pc = "done"
    /\ EditedFiles = {}
    /\ Untouched
    /\ meta' = [meta EXCEPT ![m] = rec]
    /\ ClearRun
    /\ UNCHANGED <<srcM, dirExists, cache, now>>
    /\ UNCHANGED fnVars

\* mv tex.png other.JPG; mv tex.png.cmeta other.JPG.cmeta: the asset path
\* main() derives on line 120 changes, GUID, settings and st_mtime stay.
RenameAsset(m) ==
    /\ EditMeta(m, [meta[m] EXCEPT !.suffix = ".JPG"])
    /\ hist' = [hist EXCEPT !.moved = m, !.enc = @ \cap {m}]

\* The texture settings main() reads on lines 123-127 are replaced.
ChangeSettings(m) ==
    /\ EditMeta(m, IF meta[m].import = "texture"
                   THEN [meta[m] EXCEPT !.import = "empty", !.texture = EmptyDict]
                   ELSE [meta[m] EXCEPT !.import = "texture", !.texture = CustomTexture])
    /\ hist' = [hist EXCEPT !.retuned = m, !.enc = @ \cap {m}]

\* The guid main() reads on line 117 is replaced.
ChangeGuid(m) ==
    /\ EditMeta(m, [meta[m] EXCEPT !.guid = IF @ = <<"a">> THEN <<"b">> ELSE <<"a">>])
    /\ hist' = [hist EXCEPT !.rekeyed = m, !.enc = @ \cap {m}]

\* The projects whose metadata files are texture records or unparsable.
InitEdit ==
    /\ Init
    /\ \A m \in MetaFiles : meta[m] \in {InvalidJson, TextureA, TextureB}

\* A step of main() in such a project: no record raises.
RunStep ==
    \/ StartRun
    \/ SkipDir
    \/ EnterDir
    \/ LeaveDir
    \/ Finish
    \/ \E m \in MetaFiles : SkipRecord(m)
    \/ \E m \in MetaFiles : SkipUpToDate(m)
    \/ \E m \in MetaFiles : EncodeOk(m)
    \/ \E m \in MetaFiles, partial \in BOOLEAN : EncodeFail(m, partial)

\* Runs and source edits as in Spec, then the edit, then the run that
\* follows it.
NextEdit ==
    \/ Tick /\ EditedFiles = {}
    \/ (\E m \in MetaFiles, t \in Times : WriteSource(m, t)) /\ EditedFiles = {}
    \/ (\E m \in MetaFiles : DeleteSource(m)) /\ EditedFiles = {}
    \/ \E m \in MetaFiles : RenameAsset(m)
    \/ \E m \in MetaFiles : ChangeSettings(m)
    \/ \E m \in MetaFiles : ChangeGuid(m)
    \/ (pc # "done" \/ EditedFiles = {}) /\ RunStep

SpecEdit == InitEdit /\ [][NextEdit]_vars

\* ------------------------------------------------------ runs after failures
\* Runs and source edits as in Spec, on the projects of InitEdit, with the
\* history of a run keeping the invocations that failed.
NextRetry ==
    \/ Tick
    \/ \E m \in MetaFiles, t \in Times : WriteSource(m, t)
    \/ \E m \in MetaFiles : DeleteSource(m)
    \/ StartRun
    \/ SkipDir
    \/ EnterDir
    \/ LeaveDir
    \/ FinishRemember
    \/ \E m \in MetaFiles : SkipRecord(m)
    \/ \E m \in MetaFiles : SkipUpToDate(m)
    \/ \E m \in MetaFiles : EncodeOk(m)
    \/ \E m \in MetaFiles, partial \in BOOLEAN : EncodeFail(m, partial)

SpecRetry == InitEdit /\ [][NextRetry]_vars

\* --------------------------------------------- the two functions on their own
\* should_encode and build_command called directly, as a unit test calls
\* them, on every input of a bounded set.
StatResults == {StatErr} \cup Times

ShouldEncodeCalls ==
    [fn : {"should_encode"}, outExists : BOOLEAN, outStat : StatResults,
     srcStat : StatResults]

BuildCommandCalls ==
    [fn : {"build_command"},
     basisu : {Basisu, "/opt/basisu"},
     asset : {"Assets/tex1.png", "Assets/sub/tex2.PNG"},
     output : OutPaths,
     srgb : BOOLEAN, normalMap : BOOLEAN, flipY : BOOLEAN, generateMipmaps : BOOLEAN]

InitFn ==
    /\ call \in ShouldEncodeCalls \cup BuildCommandCalls
    /\ ret = <<>>
    /\ ncalls = 0
    /\ dirExists = [d \in Dirs |-> FALSE]
    /\ meta = [m \in MetaFiles |-> InvalidJson]
    /\ srcM = [m \in MetaFiles |-> 1]
    /\ cache = [p \in OutPaths |-> NoFile]
    /\ now = 1
    /\ pc = "idle"
    /\ dirIdx = 1
    /\ pending = <<>>
    /\ encoded = 0
    /\ skipped = 0
    /\ outcome = NoOutcome
    /\ spawned = <<>>
    /\ failures = 0
    /\ hist = NoHist

EvalShouldEncode ==
    /\ call.fn = "should_encode"
    /\ ncalls < MaxCalls
    /\ ret' = <<should_encode(call.outExists, call.outStat, call.srcStat)>>
    /\ ncalls' = ncalls + 1
    /\ UNCHANGED <<call, hist>>
    /\ UNCHANGED fsVars
    /\ UNCHANGED runVars

EvalBuildCommand ==
    /\ call.fn = "build_command"
    /\ ncalls < MaxCalls
    /\ ret' = <<build_command(call.basisu, call.asset, call.output, call.srgb,
                              call.normalMap, call.flipY, call.generateMipmaps)>>
    /\ ncalls' = ncalls + 1
    /\ UNCHANGED <<call, hist>>
    /\ UNCHANGED fsVars
    /\ UNCHANGED runVars

NextFn == EvalShouldEncode \/ EvalBuildCommand

SpecFn == InitFn /\ [][NextFn]_vars

\* ================================================================= claims
InRun == pc \in {"dirs", "files"}

\* The run has processed every directory and is about to print its summary.
RunComplete == pc = "dirs" /\ dirIdx > NumDirs

\* The metadata files the encoder was invoked for in this run.
Invoked == {spawned[i][1] : i \in 1..Len(spawned)}

Processed(m) == outcome[m] \in {"skipped", "encoded", "failed"}

NothingEncoded == spawned = <<>> /\ \A m \in MetaFiles : Processed(m) => outcome[m] = "skipped"

\* C1 as stated: a run that follows at once a run whose encoder invocations
\* all exited 0, with no source change in between, invokes the encoder zero
\* times and counts every candidate it processes as skipped.
C1_IdempotentAsStated ==
    (InRun /\ hist.clean /\ hist.raised = 0) => NothingEncoded

\* C1, amended: the same, provided no candidate's source carried an mtime
\* later than the clock of the first run (a source dated in the future stays
\* newer than the output the encoder writes).
C1_Idempotent ==
    (InRun /\ hist.clean /\ hist.raised = 0 /\ hist.sane) => NothingEncoded

C1_Witness ==
    /\ RunComplete
    /\ hist.clean /\ hist.sane /\ hist.raised = 0
    /\ hist.enc # {}
    /\ \A m \in hist.enc : outcome[m] = "skipped"
    /\ skipped >= 1

OnlyRaisedReencoded ==
    /\ Invoked \subseteq {hist.raised}
    /\ outcome[hist.raised] # "none" => hist.raised \in Invoked

\* C2 as stated: after a run without failures, raising the source mtime of
\* one asset that run encoded makes the next run invoke the encoder for
\* exactly that asset and for no other.
C2_RaisedReencodedAsStated ==
    (InRun /\ hist.clean /\ hist.raised # 0) => OnlyRaisedReencoded

\* C2, amended: the same, provided the raised mtime is later than the mtime
\* of the asset's cache entry and no source was dated later than the clock
\* of the earlier run.
C2_RaisedReencoded ==
    (InRun /\ hist.clean /\ hist.raised # 0 /\ hist.beyond /\ hist.sane)
        => OnlyRaisedReencoded

C2_Witness ==
    /\ RunComplete
    /\ hist.clean /\ hist.sane /\ hist.raised # 0 /\ hist.beyond
    /\ outcome[hist.raised] = "encoded"
    /\ \E m \in MetaFiles : m # hist.raised /\ outcome[m] = "skipped"

\* C3: should_encode returns stale when the output does not exist, and, when
\* the output exists and both timestamps can be read, returns stale exactly
\* when the output's mtime is strictly earlier than the source's: equal or
\* later output timestamps give "up to date".
C3_StaleExactly ==
    (call.fn = "should_encode" /\ ret # <<>>) =>
        /\ ~call.outExists => ret[1] = TRUE
        /\ (call.outExists /\ call.outStat # StatErr /\ call.srcStat # StatErr)
               => (ret[1] = (call.outStat < call.srcStat))

C3_Witness ==
    /\ call.fn = "should_encode"
    /\ ret # <<>>
    /\ call.outExists
    /\ call.outStat # StatErr
    /\ call.outStat = call.srcStat
    /\ ret[1] = FALSE

\* C4: a step of the loop on a record that is malformed, whose type is not
\* "texture" or whose guid is missing invokes no encoder, writes no cache
\* entry and counts nothing as encoded.
C4_NonTextureNeverEncoded ==
    [][\A m \in MetaFiles :
          (/\ AtFile(m)
           /\ \/ meta[m].json # "object"
              \/ meta[m].type # "texture"
              \/ meta[m].guid = <<>>)
          => (spawned' = spawned /\ cache' = cache /\ encoded' = encoded)]_vars

C4_Witness ==
    \E m, k \in MetaFiles :
        /\ meta[m].json = "object"
        /\ meta[m].type = "material"
        /\ outcome[m] = "excluded"
        /\ outcome[k] = "encoded"

\* C5: the step in which an encoder invocation exits non-zero reports one
\* failure, changes neither counter and stays in the loop with the rest of
\* the directory still to come; and a run that reaches its summary has
\* processed every metadata file of every existing directory.
C5_FailureIsLocal ==
    /\ [][\A m \in MetaFiles :
             (outcome[m] # "failed" /\ outcome'[m] = "failed") =>
                 /\ encoded' = encoded
                 /\ skipped' = skipped
                 /\ failures' = failures + 1
                 /\ pc' = "files"
                 /\ dirIdx' = dirIdx
                 /\ pending' = Tail(pending)]_vars
    /\ [](pc = "done" =>
             \A m \in MetaFiles : dirExists[DirOf(m)] => outcome[m] # "none")

C5_Witness ==
    /\ pc = "done"
    /\ \E m, k \in MetaFiles :
          /\ m < k
          /\ outcome[m] = "failed"
          /\ outcome[k] \in {"encoded", "skipped"}
    /\ encoded + skipped >= 1

\* C6: no two candidates of one run target the same cache file.
C6_DistinctOutputs ==
    \A m, k \in MetaFiles :
        (m # k /\ Processed(m) /\ Processed(k))
            => OutputPath(meta[m].guid) # OutputPath(meta[k].guid)

\* One pass of lines 129-139 over candidate m, as a function: acc holds the
\* cache, the outcomes and the two counters, result is what the encoder does
\* with this asset if it is invoked ("ok", "fail", or "partial" for a
\* failure that leaves a file behind).
StepCandidate(m, acc, result) ==
    LET path == OutputPath(meta[m].guid) IN
    IF ~StaleIn(m, acc.cache)
    THEN [acc EXCEPT !.out[m] = "skipped", !.skipped = @ + 1]
    ELSE IF result = "ok"
    THEN [acc EXCEPT !.cache = EncoderWrites(@, path, TRUE, now),
                     !.out[m] = "encoded", !.encoded = @ + 1]
    ELSE [acc EXCEPT !.cache = EncoderWrites(@, path, result = "partial", now),
                     !.out[m] = "failed"]

RECURSIVE RunOrder(_, _, _)
RunOrder(order, acc, results) ==
    IF order = <<>> THEN acc
    ELSE RunOrder(Tail(order),
                  StepCandidate(Head(order), acc, results[Head(order)]),
                  results)

Candidates == {m \in MetaFiles : IsCandidate(m)}

Orders(S) ==
    {o \in [1..Cardinality(S) -> S] : \A i, j \in 1..Cardinality(S) : i # j => o[i] # o[j]}

\* What the encoder can do with each candidate: it cannot succeed on a
\* source that does not exist.
EncoderResults ==
    {r \in [Candidates -> {"ok", "fail", "partial"}] :
        \A m \in Candidates : r[m] = "ok" => Exists(srcM[m])}

StartAcc == [cache |-> cache, out |-> NoOutcome, encoded |-> 0, skipped |-> 0]

\* C7: from any state a run can start in, and for any behaviour of the
\* encoder fixed per asset, every processing order of the candidates gives
\* each candidate the same outcome and gives the same two counts.
C7_OrderIndependent ==
    Resting =>
        \A r \in EncoderResults : \A o1, o2 \in Orders(Candidates) :
            LET a == RunOrder(o1, StartAcc, r)
                b == RunOrder(o2, StartAcc, r)
            IN  a.out = b.out /\ a.encoded = b.encoded /\ a.skipped = b.skipped

\* C8: the list build_command returns is the encoder, -ktx2,
\* -ktx2_no_zstandard, -uastc or -etc1s by normalMap, -srgb or -linear by
\* srgb, -y_flip only if flipY, -mipmap only if generateMipmaps, -quality with
\* 50 or 80 by normalMap, -effort 4, -file asset, -output_file output,
\* -no_status_output, and every repeated call returns that same list.
C8_CommandShape ==
    (call.fn = "build_command" /\ ret # <<>>) =>
        LET cmd == ret[1]
            k == 5 + (IF call.flipY THEN 1 ELSE 0)
                   + (IF call.generateMipmaps THEN 1 ELSE 0)
        IN  /\ Len(cmd) = k + 9
            /\ cmd[1] = call.basisu
            /\ cmd[2] = "-ktx2"
            /\ cmd[3] = "-ktx2_no_zstandard"
            /\ cmd[4] = (IF call.normalMap THEN "-uastc" ELSE "-etc1s")
            /\ cmd[5] = (IF call.srgb THEN "-srgb" ELSE "-linear")
            /\ call.flipY <=> (\E i \in 1..Len(cmd) : cmd[i] = "-y_flip")
            /\ call.flipY => cmd[6] = "-y_flip"
            /\ call.generateMipmaps <=> (\E i \in 1..Len(cmd) : cmd[i] = "-mipmap")
            /\ call.generateMipmaps => cmd[k] = "-mipmap"
            /\ cmd[k + 1] = "-quality"
            /\ cmd[k + 2] = (IF call.normalMap THEN "50" ELSE "80")
            /\ cmd[k + 3] = "-effort"
            /\ cmd[k + 4] = "4"
            /\ cmd[k + 5] = "-file"
            /\ cmd[k + 6] = call.asset
            /\ cmd[k + 7] = "-output_file"
            /\ cmd[k + 8] = call.output
            /\ cmd[k + 9] = "-no_status_output"

C8_Witness ==
    /\ call.fn = "build_command"
    /\ ncalls >= 2
    /\ call.normalMap /\ call.flipY /\ ~call.generateMipmaps /\ ~call.srgb
    /\ Len(ret[1]) = 15

\* C9: should_encode returns stale whenever reading either timestamp fails,
\* and a candidate whose source file does not exist is never counted as
\* skipped: once processed, the encoder has been invoked for it.
C9_FailOpen ==
    /\ \A oe \in BOOLEAN, os \in StatResults, ss \in StatResults :
          (os = StatErr \/ ss = StatErr) => should_encode(oe, os, ss)
    /\ \A m \in MetaFiles :
          (IsCandidate(m) /\ srcM[m] = NoFile) =>
              /\ outcome[m] # "skipped"
              /\ outcome[m] # "none" => m \in Invoked

C9_Witness ==
    \E m \in MetaFiles :
        /\ IsCandidate(m)
        /\ srcM[m] = NoFile
        /\ Exists(cache[OutputPath(meta[m].guid)])
        /\ cache[OutputPath(meta[m].guid)] < now
        /\ outcome[m] = "failed"
        /\ m \in Invoked

\* C10: a step of the loop on a candidate with GUID g leaves every cache
\* entry other than <g>.ktx2 as it was, and a step on any other record
\* leaves the whole cache as it was.
C10_OthersUndisturbed ==
    [][\A m \in MetaFiles : AtFile(m) =>
          \A p \in OutPaths :
              (Classify(meta[m]) # "candidate" \/ p # OutputPath(meta[m].guid))
                  => cache'[p] = cache[p]]_vars

C10_Witness ==
    \E m \in MetaFiles :
        /\ outcome[m] = "encoded"
        /\ cache[OutputPath(meta[m].guid)] = now
        /\ \E p \in OutPaths :
              /\ p # OutputPath(meta[m].guid)
              /\ Exists(cache[p])
              /\ cache[p] < now

\* The metadata files the loop of lines 110-139 has taken so far in this run.
Visited(m) ==
    /\ pc # "idle"
    /\ dirExists[DirOf(m)]
    /\ \/ DirOf(m) < dirIdx
       \/ /\ DirOf(m) = dirIdx
          /\ pc \in {"files", "crashed"}
          /\ \A i \in 1..Len(pending) : pending[i] # m

\* C14: at every point of a run encoded + skipped + the failures reported
\* equals the number of candidate records the loop has taken so far; a step
\* on a candidate adds one to exactly one of the three, and a step on a
\* record the filter drops changes none of them.
C14_CountersAccount ==
    /\ [](encoded + skipped + failures
            = Cardinality({m \in MetaFiles : Visited(m) /\ IsCandidate(m)}))
    /\ [][\A m \in MetaFiles : AtFile(m) =>
            LET d == <<encoded' - encoded, skipped' - skipped, failures' - failures>> IN
            IF IsCandidate(m)
            THEN d \in {<<1, 0, 0>>, <<0, 1, 0>>, <<0, 0, 1>>}
            ELSE d = <<0, 0, 0>>]_vars

C14_Witness ==
    /\ RunComplete
    /\ \E m \in MetaFiles : outcome[m] \in {"unparsable", "excluded"}
    /\ \E k \in MetaFiles : outcome[k] = "failed"
    /\ failures = 1
    /\ encoded + skipped = 0

\* C16: the encoder is invoked for a record only in a step that judged that
\* record stale, and a step on a candidate whose cache entry exists with an
\* mtime not earlier than the source's adds exactly one to skipped and
\* invokes nothing.
C16_OnlyStaleInvoked ==
    [][\A m \in MetaFiles : (AtFile(m) /\ IsCandidate(m)) =>
          LET out == cache[OutputPath(meta[m].guid)] IN
          /\ (Exists(out) /\ Exists(srcM[m]) /\ out >= srcM[m]) =>
                /\ skipped' = skipped + 1
                /\ spawned' = spawned
                /\ cache' = cache
                /\ encoded' = encoded /\ failures' = failures
          /\ spawned' # spawned =>
                /\ Stale(m)
                /\ ~Exists(out) \/ ~Exists(srcM[m]) \/ out < srcM[m]
                /\ spawned' = Append(spawned, <<m, CommandFor(m, meta[m])>>)]_vars

C16_Witness ==
    \E m, k \in MetaFiles :
        /\ outcome[m] = "skipped"
        /\ Exists(srcM[m])
        /\ cache[OutputPath(meta[m].guid)] >= srcM[m]
        /\ skipped = 1
        /\ Invoked = {k}
        /\ outcome[k] = "encoded"

\* C17: within one run the encoder is invoked at most once for a record,
\* whatever its exit status: every invocation is counted once, as an encode
\* or as a failure.
C17_NoRetry ==
    /\ \A i, j \in 1..Len(spawned) : spawned[i][1] = spawned[j][1] => i = j
    /\ Len(spawned) = encoded + failures

C17_Witness ==
    \E m \in MetaFiles :
        /\ pc = "done"
        /\ outcome[m] = "failed"
        /\ Stale(m)
        /\ Len(spawned) = 1
        /\ spawned[1][1] = m

\* C19: the command of an invocation for a record without import settings
\* carries -etc1s -srgb -mipmap -quality 80 -effort 4 and no -y_flip, and
\* encoded counts exactly the invocations that exited 0.
C19_DefaultsApplied ==
    /\ \A i \in 1..Len(spawned) :
          LET m == spawned[i][1]
              cmd == spawned[i][2]
          IN  meta[m].import # "texture" =>
                /\ SubSeq(cmd, 4, 10) =
                     <<"-etc1s", "-srgb", "-mipmap", "-quality", "80", "-effort", "4">>
                /\ \A n \in 1..Len(cmd) : cmd[n] # "-y_flip"
    /\ encoded = Cardinality({m \in MetaFiles : outcome[m] = "encoded"})
    /\ \A m \in MetaFiles : outcome[m] = "encoded" => m \in Invoked

C19_Witness ==
    \E m \in MetaFiles :
        /\ meta[m] = TextureA
        /\ outcome[m] = "encoded"
        /\ encoded = 1
        /\ Len(spawned) = 1
        /\ Len(spawned[1][2]) = 15

\* C12: once pre-flight has passed a run never ends otherwise than by its
\* summary, and at the summary every metadata file of every existing search
\* directory has been visited, whatever the files hold and however the
\* encoder exits.
C12_RunCompletes ==
    /\ pc # "crashed"
    /\ pc = "done" => \A m \in MetaFiles : dirExists[DirOf(m)] => outcome[m] # "none"

\* C18: in the run that follows a run in which the encoder exited non-zero
\* for a candidate and left its cache entry absent or as it was, with no
\* source change in between, the candidate is judged stale again: it is
\* never counted as skipped, and once the loop has taken it the encoder has
\* been invoked for it.
C18_FailedRetried ==
    \A m \in hist.failed :
        /\ InRun => outcome[m] # "skipped"
        /\ (InRun /\ Visited(m)) => m \in Invoked
        /\ pc = "idle" => Stale(m)

SkippedWhenTaken(m) ==
    /\ m \notin Invoked
    /\ Visited(m) => outcome[m] = "skipped"

\* C11 as stated: an asset that a run without failures encoded and that is
\* then renamed with its metadata file, GUID and mtime kept and the new
\* extension a supported one, is skipped by the next run, which does not
\* invoke the encoder for it.
C11_RenameKeepsCacheAsStated ==
    \A m \in MetaFiles :
        (InRun /\ hist.clean /\ hist.moved = m /\ m \in hist.enc) => SkippedWhenTaken(m)

\* C11, amended: the same, provided no candidate's source carried an mtime
\* later than the clock of the run that encoded the asset (a source dated in
\* the future stays newer than the output the encoder writes).
C11_RenameKeepsCache ==
    \A m \in MetaFiles :
        (InRun /\ hist.clean /\ hist.sane /\ hist.moved = m /\ m \in hist.enc)
            => SkippedWhenTaken(m)

C11_Witness ==
    \E m \in MetaFiles :
        /\ RunComplete
        /\ hist.clean /\ hist.sane /\ hist.moved = m /\ m \in hist.enc
        /\ meta[m].suffix = ".JPG"
        /\ outcome[m] = "skipped"
        /\ spawned = <<>>

\* C13: no step deletes a cache entry, and a step that changes an entry is
\* an encoder invocation for a stale candidate whose GUID names that entry,
\* stamping it with the clock; this across runs, source edits, source
\* deletions, renames, settings changes and GUID changes.
C13_EntriesPersist ==
    [][\A p \in OutPaths :
          /\ Exists(cache[p]) => Exists(cache'[p])
          /\ cache'[p] # cache[p] =>
                \E m \in MetaFiles :
                    /\ AtFile(m) /\ IsCandidate(m) /\ Stale(m)
                    /\ p = OutputPath(meta[m].guid)
                    /\ cache'[p] = now
                    /\ spawned' = Append(spawned, <<m, CommandFor(m, meta[m])>>)]_vars

\* An orphaned entry after the run that followed the GUID change.
C13_Witness ==
    \E p \in OutPaths :
        /\ pc = "done"
        /\ EditedFiles # {}
        /\ Exists(cache[p])
        /\ \A m \in MetaFiles : IsCandidate(m) => OutputPath(meta[m].guid) # p
        /\ \E q \in OutPaths : q # p /\ Exists(cache[q])

\* C15: two candidates have the same cache entry exactly when they have the
\* same GUID; whether a candidate is stale is a function of the existence
\* and mtime of <guid>.ktx2 and of the source mtime alone; and after a run
\* without failures and without a source dated later than its clock, the
\* run that follows a change of a candidate's import settings skips that
\* candidate and does not invoke the encoder for it.
C15_SettingsIgnored ==
    /\ \A m, k \in MetaFiles :
          (IsCandidate(m) /\ IsCandidate(k)) =>
              (OutputPath(meta[m].guid) = OutputPath(meta[k].guid)
                   <=> meta[m].guid = meta[k].guid)
    /\ \A m \in MetaFiles :
          IsCandidate(m) =>
              LET out == cache[OutputPath(meta[m].guid)] IN
              Stale(m) <=> (~Exists(out) \/ ~Exists(srcM[m]) \/ out < srcM[m])
    /\ \A m \in MetaFiles :
          (InRun /\ hist.clean /\ hist.sane /\ hist.retuned = m) => SkippedWhenTaken(m)

C15_Witness ==
    \E m \in MetaFiles :
        /\ RunComplete
        /\ hist.clean /\ hist.sane /\ hist.retuned = m /\ m \in hist.enc
        /\ meta[m].import = "texture"
        /\ meta[m].guid = <<"a">>
        /\ outcome[m] = "skipped"

====
